---- MODULE Spec2Model ----
(***************************************************************************)
(* A model of the static-site build script scripts/build.js (class         *)
(* SiteBuilder): the article normalisation helpers (getArticleSlug,        *)
(* extractExcerpt, formatContent), the renderers (getHomePageHTML,         *)
(* getArticlePageHTML, getRSSFeed) and the build pipeline (build and the   *)
(* steps it awaits).                                                       *)
(*                                                                         *)
(* Text is a sequence of one-character strings.  An optional field of an   *)
(* article record is a sequence of length 0 (absent: undefined or null) or *)
(* 1 (present, holding its value).  A point in time is a whole number of   *)
(* days since 1970-01-01 (the script's milliseconds divided by 86400000).  *)
(***************************************************************************)
EXTENDS Integers, Sequences, FiniteSets, TLC

VARIABLES
    pc,         \* position of build(): the step it is about to await
    source,     \* articles.json as found on disk
    imagesSrc,  \* the images source directory as found on disk
    now,        \* the wall clock read by Date.now() / new Date()
    variant,    \* which getHomePageHTML the script carries
    articles,   \* the array returned by loadArticles
    dist,       \* the output directory tree
    exitCode,   \* 0 while running or on a clean end, 1 after process.exit(1)
    log,        \* console messages in order
    events,     \* what this run has loaded, rendered and written, in order
    fn,         \* helper under direct call ("none" during a build)
    arg,        \* the article record passed to the helper
    ret         \* what the helper returned

vars == <<pc, source, imagesSrc, now, variant, articles, dist, exitCode, log,
          events, fn, arg, ret>>

---------------------------------------------------------------------------
(* Bounds of the model *)

MaxArticles == 3     \* longest articles.json enumerated in full
MaxOverflow == 1     \* bulk lists reach FeedLimit + MaxOverflow articles
MaxSlugLen == 3      \* longest slug / id / title text enumerated
MaxTailLen == 2      \* most pieces of text put around an excerpt-sized run
MaxContentLen == 4   \* longest content passed to formatContent
MaxImages == 2       \* most files in the images source directory

(* Program constants *)

ExcerptLength == 150   \* extractExcerpt(content, length = 150)
FeedLimit == 20        \* articles.slice(0, 20)

---------------------------------------------------------------------------
(* Text helpers *)

Absent == <<>>
Some(v) == <<v>>

LowerLetters ==
    <<"a","b","c","d","e","f","g","h","i","j","k","l","m",
      "n","o","p","q","r","s","t","u","v","w","x","y","z">>
UpperLetters ==
    <<"A","B","C","D","E","F","G","H","I","J","K","L","M",
      "N","O","P","Q","R","S","T","U","V","W","X","Y","Z">>
Digits == {"0","1","2","3","4","5","6","7","8","9"}
Whitespace == {" ", "\n", "\t", "\r"}

Range(s) == {s[i] : i \in 1..Len(s)}

Rep(c, n) == [i \in 1..n |-> c]

\* All texts over alphabet A of length at most n.
TextsUpTo(A, n) == UNION {[1..k -> A] : k \in 0..n}

\* JavaScript truthiness of an optional text field: undefined, null and ""
\* are falsy.
Truthy(f) == f # Absent /\ f[1] # <<>>

\* String.prototype.toLowerCase
ToLowerChar(c) ==
    IF \E i \in 1..26 : UpperLetters[i] = c
    THEN LowerLetters[CHOOSE i \in 1..26 : UpperLetters[i] = c]
    ELSE c
ToLowerCase(s) == [i \in 1..Len(s) |-> ToLowerChar(s[i])]

\* [a-z0-9]
IsSlugChar(c) == c \in Range(LowerLetters) \cup Digits

\* .replace(/[^a-z0-9]+/g, '-'): every maximal run of other characters
\* becomes one hyphen.
RECURSIVE HyphenateFrom(_, _, _)
HyphenateFrom(s, i, acc) ==
    IF i > Len(s) THEN acc
    ELSE IF IsSlugChar(s[i]) THEN HyphenateFrom(s, i + 1, Append(acc, s[i]))
    ELSE IF i > 1 /\ ~IsSlugChar(s[i - 1]) THEN HyphenateFrom(s, i + 1, acc)
    ELSE HyphenateFrom(s, i + 1, Append(acc, "-"))
ReplaceNonAlnumRuns(s) == HyphenateFrom(s, 1, <<>>)

\* .replace(/^-|-$/g, ''): one hyphen off the front, then one off the end of
\* what is left.
StripEdgeHyphens(s) ==
    LET a == IF s # <<>> /\ Head(s) = "-" THEN Tail(s) ELSE s
    IN  IF a # <<>> /\ a[Len(a)] = "-" THEN SubSeq(a, 1, Len(a) - 1) ELSE a

\* String.prototype.trim: the text between its first and its last character
\* that is not whitespace.
RECURSIVE FirstInk(_, _)
FirstInk(s, i) ==
    IF i > Len(s) \/ s[i] \notin Whitespace THEN i ELSE FirstInk(s, i + 1)
RECURSIVE LastInk(_, _)
LastInk(s, i) ==
    IF i < 1 \/ s[i] \notin Whitespace THEN i ELSE LastInk(s, i - 1)
Trim(s) == SubSeq(s, FirstInk(s, 1), LastInk(s, Len(s)))

\* The least element of a non-empty set of positions.
Least(S) == CHOOSE i \in S : \A j \in S : i <= j

\* .replace(/<[^>]*>/g, ''): scanning left to right, a "<" that has a ">"
\* somewhere after it is removed together with everything up to the first
\* such ">"; a "<" with no ">" after it stays.
RECURSIVE StripFrom(_, _)
StripFrom(s, i) ==
    LET opens == {k \in i..Len(s) : s[k] = "<"}
        closers == {k \in (Least(opens) + 1)..Len(s) : s[k] = ">"}
    IN  IF opens = {} \/ closers = {} THEN SubSeq(s, i, Len(s))
        ELSE SubSeq(s, i, Least(opens) - 1) \o StripFrom(s, Least(closers) + 1)
StripTags(s) == StripFrom(s, 1)

\* .split('\n\n'): the separators are matched left to right without overlap.
RECURSIVE SplitFrom(_, _)
SplitFrom(s, i) ==
    LET seps == {k \in i..(Len(s) - 1) : s[k] = "\n" /\ s[k + 1] = "\n"}
    IN  IF seps = {} THEN <<SubSeq(s, i, Len(s))>>
        ELSE <<SubSeq(s, i, Least(seps) - 1)>> \o SplitFrom(s, Least(seps) + 2)
SplitParagraphs(s) == SplitFrom(s, 1)

\* .join('')
RECURSIVE Join(_)
Join(parts) == IF parts = <<>> THEN <<>> ELSE Head(parts) \o Join(Tail(parts))

POpen == <<"<", "p", ">">>
PClose == <<"<", "/", "p", ">">>
Ellipsis == <<".", ".", ".">>
Untitled == <<"u","n","t","i","t","l","e","d">>

---------------------------------------------------------------------------
(* Article normalisation *)

\* getArticleSlug(article)
getArticleSlug(article) ==
    LET chosen == IF Truthy(article.slug) THEN article.slug[1]
                  ELSE IF Truthy(article.id) THEN article.id[1]
                  ELSE IF Truthy(article.title) THEN article.title[1]
                  ELSE Untitled
    IN  StripEdgeHyphens(ReplaceNonAlnumRuns(ToLowerCase(chosen)))

\* extractExcerpt with the cut forgotten: the ellipsis goes behind the whole
\* text.
extractExcerpt_NoCut(content, length) ==
    IF ~Truthy(content) THEN <<>>
    ELSE LET text == Trim(StripTags(content[1]))
         IN  IF Len(text) > length THEN text \o Ellipsis ELSE text

\* extractExcerpt cutting without marking the cut.
extractExcerpt_NoEllipsis(content, length) ==
    IF ~Truthy(content) THEN <<>>
    ELSE LET text == Trim(StripTags(content[1]))
         IN  IF Len(text) > length THEN SubSeq(text, 1, length) ELSE text

\* extractExcerpt(content, length)
extractExcerpt(content, length) ==
    IF ~Truthy(content) THEN <<>>
    ELSE LET text == Trim(StripTags(content[1]))
         IN  IF Len(text) > length THEN SubSeq(text, 1, length) \o Ellipsis
             ELSE text

\* formatContent taking either angle bracket for markup.
formatContent_AnyBracket(content) ==
    IF ~Truthy(content) THEN <<>>
    ELSE IF {"<", ">"} \cap Range(content[1]) = {}
         THEN LET ps == SplitParagraphs(content[1])
              IN  Join([k \in 1..Len(ps) |-> POpen \o Trim(ps[k]) \o PClose])
         ELSE content[1]

\* formatContent(content)
formatContent(content) ==
    IF ~Truthy(content) THEN <<>>
    ELSE IF "<" \notin Range(content[1])
         THEN LET ps == SplitParagraphs(content[1])
              IN  Join([k \in 1..Len(ps) |-> POpen \o Trim(ps[k]) \o PClose])
         ELSE content[1]

\* article.excerpt || this.extractExcerpt(article.content)
ExcerptOf(article) ==
    IF Truthy(article.excerpt) THEN article.excerpt[1]
    ELSE extractExcerpt(article.content, ExcerptLength)

---------------------------------------------------------------------------
(* Dates *)

\* The date strings the model distinguishes, each with the time value
\* Date.parse gives it; every other string is unparseable.
DateTable ==
    { <<"1969-12-31", -1>>, <<"1970-01-01", 0>>,
      <<"2024-01-01", 19723>>, <<"2024-03-01", 19783>>,
      <<"2024-10-04", 20000>>, <<"2025-01-01", 20089>> }

InvalidDate == [valid |-> FALSE, time |-> 0]

\* new Date(string)
NewDateFromString(s) ==
    IF \E p \in DateTable : p[1] = s
    THEN [valid |-> TRUE, time |-> (CHOOSE p \in DateTable : p[1] = s)[2]]
    ELSE InvalidDate

\* new Date(number)
NewDateFromNumber(n) == [valid |-> TRUE, time |-> n]

\* Date.prototype.toISOString, for the times the clock takes
toISOString(t) == (CHOOSE p \in DateTable : p[2] = t)[1]

\* Date.prototype.toLocaleDateString / toUTCString: the text of the day, or
\* "Invalid Date".
toLocaleDateString(d) == IF d.valid THEN "day " \o ToString(d.time) ELSE "Invalid Date"
toUTCString(d) == IF d.valid THEN "UTC day " \o ToString(d.time) ELSE "Invalid Date"

\* Date.prototype.getFullYear: the civil year of a day count (days since
\* 1970-01-01), through the 400-year era, the year of the era and the month
\* counted from March.
getFullYear(d) ==
    LET z   == d.time + 719468
        era == z \div 146097
        doe == z - era * 146097
        yoe == (doe - doe \div 1460 + doe \div 36524 - doe \div 146096) \div 365
        doy == doe - (365 * yoe + yoe \div 4 - yoe \div 100)
        mp  == (5 * doy + 2) \div 153
    IN  yoe + era * 400 + (IF mp >= 10 THEN 1 ELSE 0)

\* Truthiness of an optional date string.
TruthyDate(f) == f # Absent /\ f[1] # ""

\* The display date taken from the clock whatever the record holds.
DisplayDate_AlwaysNow(article, t) == NewDateFromNumber(t)

\* new Date(article.date || article.published_at || Date.now())
DisplayDate(article, t) ==
    IF TruthyDate(article.date) THEN NewDateFromString(article.date[1])
    ELSE IF TruthyDate(article.published_at) THEN NewDateFromString(article.published_at[1])
    ELSE NewDateFromNumber(t)

\* new Date(a.date || a.published_at || 0)
SortKey(article) ==
    IF TruthyDate(article.date) THEN NewDateFromString(article.date[1])
    ELSE IF TruthyDate(article.published_at) THEN NewDateFromString(article.published_at[1])
    ELSE NewDateFromNumber(0)

---------------------------------------------------------------------------
(* Array.prototype.sort with the comparator of loadArticles *)

\* (a, b) => new Date(b...) - new Date(a...); the difference of an Invalid
\* Date is NaN, which sort reads as +0.
SortCompare(a, b) ==
    IF SortKey(a).valid /\ SortKey(b).valid
    THEN SortKey(b).time - SortKey(a).time
    ELSE 0

InsertAt(r, k, x) == SubSeq(r, 1, k) \o <<x>> \o SubSeq(r, k + 1, Len(r))

\* Where an insertion sort that trusts the comparator may put x into r: behind
\* an element that does not sort after x and before one that does.  When the
\* comparator is consistent and r is sorted there is exactly one such place,
\* the stable one.
InsertPositions(r, x) ==
    {k \in 0..Len(r) :
        /\ (k = 0 \/ SortCompare(x, r[k]) >= 0)
        /\ (k = Len(r) \/ SortCompare(x, r[k + 1]) < 0)}

\* articles.sort(comparefn): for a consistent comparator the one stable
\* newest-first order.  An unparseable date makes the comparator inconsistent
\* and the order implementation-defined; the outcomes are then those of the
\* insertion sorts (the engine's sort for an array of this size is one of
\* them), whichever element they probe.
RECURSIVE SortOutcomes(_)
SortOutcomes(list) ==
    IF list = <<>> THEN {<<>>}
    ELSE LET x == list[Len(list)]
         IN  UNION {{InsertAt(r, k, x) : k \in InsertPositions(r, x)} :
                        r \in SortOutcomes(SubSeq(list, 1, Len(list) - 1))}

---------------------------------------------------------------------------
(* Renderers.  A page is the record of the values interpolated into its    *)
(* template; the fixed markup around them is left out.                     *)

Min(a, b) == IF a < b THEN a ELSE b

\* articles/${slug}.html
ArticleHref(slug) == [dir |-> "articles", slug |-> slug, ext |-> ".html"]

\* One entry of the home page: the featured section or a card.
HomeEntry(article, t) ==
    [ href    |-> ArticleHref(getArticleSlug(article)),
      title   |-> article.title,
      excerpt |-> ExcerptOf(article),
      date    |-> toLocaleDateString(DisplayDate(article, t)) ]

\* getHomePageHTML with the featured section lost: the cards still start at
\* the second article.
getHomePageHTML_NoFeatured(as, t, v) ==
    IF v = "featured"
    THEN [ featured |-> <<>>,
           cards    |-> [k \in 1..(IF Len(as) > 0 THEN Len(as) - 1 ELSE 0) |->
                            HomeEntry(as[k + 1], t)],
           year     |-> getFullYear(NewDateFromNumber(t)) ]
    ELSE [ featured |-> <<>>,
           cards    |-> [k \in 1..Len(as) |-> HomeEntry(as[k], t)],
           year     |-> getFullYear(NewDateFromNumber(t)) ]

\* getHomePageHTML with the cards starting at the first article, the
\* featured one shown again among them.
getHomePageHTML_FeaturedRepeated(as, t, v) ==
    [ featured |-> IF v = "featured" /\ Len(as) > 0 THEN <<HomeEntry(as[1], t)>> ELSE <<>>,
      cards    |-> [k \in 1..Len(as) |-> HomeEntry(as[k], t)],
      year     |-> getFullYear(NewDateFromNumber(t)) ]

\* getHomePageHTML(articles): scripts/build.js features the first article
\* and lists the rest as cards; the other copy of the script lists all of
\* them as cards.
getHomePageHTML(as, t, v) ==
    IF v = "featured"
    THEN [ featured |-> IF Len(as) > 0 THEN <<HomeEntry(as[1], t)>> ELSE <<>>,
           cards    |-> [k \in 1..(IF Len(as) > 0 THEN Len(as) - 1 ELSE 0) |->
                            HomeEntry(as[k + 1], t)],
           year     |-> getFullYear(NewDateFromNumber(t)) ]
    ELSE [ featured |-> <<>>,
           cards    |-> [k \in 1..Len(as) |-> HomeEntry(as[k], t)],
           year     |-> getFullYear(NewDateFromNumber(t)) ]

\* The article entries of a home page, top to bottom.
HomeEntries(html) == html.featured \o html.cards

\* getArticlePageHTML(article)
getArticlePageHTML(article, t) ==
    [ title         |-> article.title,
      description   |-> ExcerptOf(article),
      ogDescription |-> ExcerptOf(article),
      date          |-> toLocaleDateString(DisplayDate(article, t)),
      body          |-> formatContent(article.content),
      year          |-> getFullYear(NewDateFromNumber(t)) ]

\* One <item> of the feed.
FeedItem(article, t) ==
    [ title       |-> article.title,
      link        |-> ArticleHref(getArticleSlug(article)),
      description |-> ExcerptOf(article),
      pubDate     |-> toUTCString(DisplayDate(article, t)),
      guid        |-> ArticleHref(getArticleSlug(article)) ]

\* getRSSFeed(articles)
getRSSFeed(as, t) ==
    [ items         |-> [k \in 1..Min(Len(as), FeedLimit) |-> FeedItem(as[k], t)],
      lastBuildDate |-> toUTCString(NewDateFromNumber(t)) ]

---------------------------------------------------------------------------
(* Article records and the data source *)

Article(slug, id, title, content, excerpt, date, published_at) ==
    [ slug |-> slug, id |-> id, title |-> title, content |-> content,
      excerpt |-> excerpt, date |-> date, published_at |-> published_at ]

SampleId ==
    <<"s","a","m","p","l","e","-","a","r","t","i","c","l","e">>
SampleTitle ==
    <<"W","e","l","c","o","m","e"," ","t","o"," ","Y","o","u","r"," ","A",
      "u","t","o","m","a","t","e","d"," ","C","o","n","t","e","n","t"," ",
      "S","i","t","e">>
SampleContent ==
    <<"T","h","i","s"," ","i","s"," ","a"," ","s","a","m","p","l","e"," ",
      "a","r","t","i","c","l","e","."," ","U","p","d","a","t","e"," ","y",
      "o","u","r"," ","a","r","t","i","c","l","e","s",".","j","s","o","n",
      " ","f","i","l","e"," ","t","o"," ","a","d","d"," ","y","o","u","r",
      " ","o","w","n"," ","c","o","n","t","e","n","t","!">>
SampleExcerpt ==
    <<"G","e","t"," ","s","t","a","r","t","e","d"," ","w","i","t","h"," ",
      "y","o","u","r"," ","a","u","t","o","m","a","t","e","d"," ","c","o",
      "n","t","e","n","t"," ","m","a","n","a","g","e","m","e","n","t"," ",
      "s","y","s","t","e","m",".">>

\* createSampleArticles()
createSampleArticles(t) ==
    << Article(Absent, Some(SampleId), Some(SampleTitle), Some(SampleContent),
               Some(SampleExcerpt), Some(toISOString(t)), Absent) >>

\* The records articles.json is filled from: two whose titles normalise to
\* the same slug, one with nothing but punctuation for a title and no
\* timestamp, one with an unparseable date next to a good published_at, and
\* one dated before 1970 whose explicit excerpt is empty.
PoolArticles ==
    { Article(Absent, Absent, Some(<<"H","i">>), Some(<<"a","\n","\n","b">>),
              Absent, Some("2024-01-01"), Absent),
      Article(Absent, Absent, Some(<<"h","i","!">>), Some(<<"<","p",">","c","<","/","p",">">>),
              Some(<<"e">>), Some("2024-03-01"), Absent),
      Article(Absent, Absent, Some(<<"!","!">>), Absent,
              Absent, Absent, Absent),
      Article(Absent, Some(<<"x","1">>), Some(<<"B">>), Some(<<"c"," ",">"," ","d">>),
              Absent, Some("soon"), Some("2024-03-01")),
      Article(Some(<<"O","l","d">>), Absent, Some(<<"B">>), Some(<<"d">>),
              Some(<<>>), Some("1969-12-31"), Absent) }

\* Every list of at most n pool records.
ListsUpTo(n) == UNION {[1..k -> PoolArticles] : k \in 0..n}

\* Lists around the feed's cap: FeedLimit - 1 copies of one record (dated,
\* or with no timestamp) followed by up to MaxOverflow + 1 more records.
BulkArticles == {a \in PoolArticles : a.published_at = Absent /\ a.slug = Absent}
BulkLists ==
    {Rep(a, FeedLimit - 1) \o tail : a \in BulkArticles, tail \in ListsUpTo(MaxOverflow + 1)}

\* What readFile and JSON.parse can meet: no file, a file that cannot be
\* read, a zero-byte file, text that is not JSON, JSON that is not an array,
\* and an array of records.
Sources ==
    {[kind |-> k, items |-> <<>>] :
        k \in {"absent", "unreadable", "empty", "malformed", "notlist"}}
    \cup {[kind |-> "list", items |-> l] : l \in ListsUpTo(MaxArticles) \cup BulkLists}

\* The few data sources the build is run on in every environment.
EnvSources ==
    {[kind |-> "absent", items |-> <<>>], [kind |-> "list", items |-> <<>>]}
    \cup {[kind |-> "list", items |-> l] : l \in [1..2 -> PoolArticles]}

---------------------------------------------------------------------------
(* The file system *)

ImageNames == [i \in 1..MaxImages |-> "img" \o ToString(i) \o ".png"]

ImageDirs ==
    {[exists |-> FALSE, files |-> <<>>]}
    \cup {[exists |-> TRUE, files |-> SubSeq(ImageNames, 1, n)] : n \in 0..MaxImages}

NoDist ==
    [ exists |-> FALSE, css |-> FALSE, index |-> <<>>, articles |-> <<>>,
      feed |-> <<>>, images |-> {} ]

\* What an earlier build left behind.
StaleSlug == <<"g","o","n","e">>
StaleDist ==
    [ exists |-> TRUE, css |-> TRUE, index |-> <<>>,
      articles |-> (StaleSlug :> getArticlePageHTML(
                        Article(Some(StaleSlug), Absent, Absent, Absent, Absent,
                                Absent, Absent), 0)),
      feed |-> <<>>, images |-> {"stale.png"} ]

Clock == {20000, 20089}

Variants == {"featured", "cards"}

---------------------------------------------------------------------------
(* The build pipeline: build() and the steps it awaits *)

\* Into the catch of build(): console.error and process.exit(1).
\* One entry of the run's history: a read of articles.json, a call of a
\* renderer, a completed writeFile or copyFile.
Event(op, what) == [op |-> op, what |-> what]

\* The history of the loop of generateArticlePages in which n of total
\* writes complete: each page is rendered and then written before the next
\* one is rendered; a write that throws leaves its render behind.
PageEvents_RenderAllFirst(n, total) ==
    [k \in 1..(total + n) |->
        IF k <= total THEN Event("render", "page") ELSE Event("write", "page")]

PageEvents(n, total) ==
    [k \in 1..(2 * n + (IF n < total THEN 1 ELSE 0)) |->
        IF k % 2 = 1 THEN Event("render", "page") ELSE Event("write", "page")]

\* The catch of build() without its process.exit(1).
Fail_NoExit ==
    /\ pc' = "failed"
    /\ exitCode' = exitCode
    /\ log' = Append(log, "error: Build failed")

Fail ==
    /\ pc' = "failed"
    /\ exitCode' = 1
    /\ log' = Append(log, "error: Build failed")

\* console.log at the head of build(), then cleanDist(): an error of fs.rm
\* is swallowed and leaves the tree as it was.
CleanDist ==
    /\ pc = "cleanDist"
    /\ \E ok \in BOOLEAN : dist' = IF ok THEN NoDist ELSE dist
    /\ pc' = "createDist"
    /\ log' = Append(log, "log: Building site...")
    /\ UNCHANGED <<source, imagesSrc, now, variant, articles, exitCode, events, fn, arg, ret>>

\* createDist(): three mkdir calls; the first failure throws.
CreateDist ==
    /\ pc = "createDist"
    /\ \E made \in 0..3 :
          /\ dist' = [dist EXCEPT !.exists = @ \/ made >= 1]
          /\ IF made = 3
             THEN pc' = "loadArticles" /\ UNCHANGED <<exitCode, log>>
             ELSE Fail
    /\ UNCHANGED <<source, imagesSrc, now, variant, articles, events, fn, arg, ret>>

\* loadArticles(): whatever is thrown inside the try (by readFile, by
\* JSON.parse, or by calling .sort on a value that has none) is caught and
\* answered with the sample data.
LoadArticles ==
    /\ pc = "loadArticles"
    /\ \/ /\ source.kind = "list"
          /\ \E sorted \in SortOutcomes(source.items) : articles' = sorted
          /\ UNCHANGED log
       \/ /\ source.kind # "list"
          /\ articles' = createSampleArticles(now)
          /\ log' = Append(log, "warn: No articles.json found, creating sample data...")
    /\ pc' = "copyAssets"
    /\ events' = Append(events, Event("load", "articles.json"))
    /\ UNCHANGED <<source, imagesSrc, now, variant, dist, exitCode, fn, arg, ret>>

\* copyAssets(): styles.css is written; then the images are copied one by
\* one inside a try whose catch only warns, so the first failure (readdir
\* or a copyFile) ends the copying and the build goes on.
CopyAssets ==
    /\ pc = "copyAssets"
    /\ \/ /\ Fail
          /\ events' = Append(events, Event("render", "styles.css"))
          /\ UNCHANGED dist
       \/ /\ \E n \in 0..Len(imagesSrc.files) :
                /\ imagesSrc.exists \/ n = 0
                /\ dist' = [dist EXCEPT
                              !.css = TRUE,
                              !.images = @ \cup {imagesSrc.files[i] : i \in 1..n}]
                /\ log' = IF imagesSrc.exists /\ n = Len(imagesSrc.files)
                          THEN log
                          ELSE Append(log, "warn: No images directory found")
                /\ events' = events
                      \o <<Event("render", "styles.css"), Event("write", "styles.css")>>
                      \o [k \in 1..n |-> Event("copy", "image")]
          /\ pc' = "generateHomePage"
          /\ UNCHANGED exitCode
    /\ UNCHANGED <<source, imagesSrc, now, variant, articles, fn, arg, ret>>

\* generateHomePage(articles)
GenerateHomePage ==
    /\ pc = "generateHomePage"
    /\ \/ /\ Fail
          /\ events' = Append(events, Event("render", "index.html"))
          /\ UNCHANGED dist
       \/ /\ dist' = [dist EXCEPT !.index = <<getHomePageHTML(articles, now, variant)>>]
          /\ events' = events
                \o <<Event("render", "index.html"), Event("write", "index.html")>>
          /\ pc' = "generateArticlePages"
          /\ UNCHANGED <<exitCode, log>>
    /\ UNCHANGED <<source, imagesSrc, now, variant, articles, fn, arg, ret>>

\* The articles directory after the first n iterations of the loop of
\* generateArticlePages: each writeFile replaces what the path held.
RECURSIVE WritePages(_, _, _, _)
WritePages(dir, as, n, t) ==
    IF n = 0 THEN dir
    ELSE (getArticleSlug(as[n]) :> getArticlePageHTML(as[n], t))
         @@ WritePages(dir, as, n - 1, t)

\* generateArticlePages(articles): n writes succeed; with n short of the
\* collection the next one throws.
GenerateArticlePages ==
    /\ pc = "generateArticlePages"
    /\ \E n \in 0..Len(articles) :
          /\ dist' = [dist EXCEPT !.articles = WritePages(@, articles, n, now)]
          /\ events' = events \o PageEvents(n, Len(articles))
          /\ IF n = Len(articles)
             THEN pc' = "generateRSSFeed" /\ UNCHANGED <<exitCode, log>>
             ELSE Fail
    /\ UNCHANGED <<source, imagesSrc, now, variant, articles, fn, arg, ret>>

\* generateRSSFeed(articles)
GenerateRSSFeed ==
    /\ pc = "generateRSSFeed"
    /\ \/ /\ Fail
          /\ events' = Append(events, Event("render", "feed.xml"))
          /\ UNCHANGED dist
       \/ /\ dist' = [dist EXCEPT !.feed = <<getRSSFeed(articles, now)>>]
          /\ events' = events
                \o <<Event("render", "feed.xml"), Event("write", "feed.xml")>>
          /\ pc' = "success"
          /\ UNCHANGED <<exitCode, log>>
    /\ UNCHANGED <<source, imagesSrc, now, variant, articles, fn, arg, ret>>

\* console.log at the end of the try of build().
ReportSuccess ==
    /\ pc = "success"
    /\ pc' = "done"
    /\ log' = Append(log, "log: Site built successfully!")
    /\ UNCHANGED <<source, imagesSrc, now, variant, articles, dist, exitCode, events, fn, arg, ret>>

NoArticle == Article(Absent, Absent, Absent, Absent, Absent, Absent, Absent)

\* new SiteBuilder(); builder.build(): every data source in a fresh output
\* directory, and a few data sources in every environment.
Init ==
    /\ pc = "cleanDist"
    /\ \/ /\ source \in Sources
          /\ imagesSrc = [exists |-> FALSE, files |-> <<>>]
          /\ now = 20000
          /\ dist = NoDist
       \/ /\ source \in EnvSources
          /\ imagesSrc \in ImageDirs
          /\ now \in Clock
          /\ dist \in {NoDist, StaleDist}
    /\ variant \in Variants
    /\ articles = <<>>
    /\ exitCode = 0
    /\ log = <<>>
    /\ events = <<>>
    /\ fn = "none"
    /\ arg = NoArticle
    /\ ret = <<>>

Next ==
    \/ CleanDist
    \/ CreateDist
    \/ LoadArticles
    \/ CopyAssets
    \/ GenerateHomePage
    \/ GenerateArticlePages
    \/ GenerateRSSFeed
    \/ ReportSuccess

Spec == Init /\ [][Next]_vars

---------------------------------------------------------------------------
(* The helpers under direct call, one article record at a time *)

SlugAlphabet == {"a", "B", "!", "-"}
OtherText == <<"Z", "9">>

\* Records for getArticleSlug: each of slug, id and title is absent, empty,
\* a text s or another text.
SlugArgs ==
    {Article(f[1], f[2], f[3], Absent, Absent, Absent, Absent) :
        f \in UNION {[1..3 -> {Absent, Some(<<>>), Some(s), Some(OtherText)}] :
                        s \in TextsUpTo(SlugAlphabet, MaxSlugLen)}}

TailPieces == {<<"b">>, <<" ">>, <<"<">>, <<">">>, <<"<", "b", ">">>, Ellipsis}
RunLengths == {0, ExcerptLength - 1, ExcerptLength, ExcerptLength + 1}

\* Contents for extractExcerpt: a run of letters about as long as the
\* excerpt, with at most MaxTailLen pieces of text (a letter, a space, an
\* angle bracket, a tag, an ellipsis) before or after it.
Tails == {Join(ps) : ps \in UNION {[1..k -> TailPieces] : k \in 0..MaxTailLen}}
ExcerptContents ==
    UNION {{Rep("x", n) \o t, t \o Rep("x", n)} : n \in RunLengths, t \in Tails}

ExtractArgs ==
    {Article(Absent, Absent, Absent, c, Absent, Absent, Absent) :
        c \in {Absent} \cup {Some(t) : t \in ExcerptContents}}

ContentAlphabet == {"a", " ", "\n", "<", ">"}

FormatArgs ==
    {Article(Absent, Absent, Absent, c, Absent, Absent, Absent) :
        c \in {Absent} \cup {Some(t) : t \in TextsUpTo(ContentAlphabet, MaxContentLen)}}

ExplicitExcerpts ==
    {Absent, Some(<<>>), Some(Rep("y", ExcerptLength + 3)), Some(Rep("y", ExcerptLength + 4))}

DateFields == {Absent, Some(""), Some("soon"), Some("1969-12-31"), Some("2024-01-01")}

\* Records for the renderers: every content with every explicit excerpt,
\* and every pair of date fields.
RenderArgs ==
    {Article(Absent, Absent, Some(<<"T">>), Some(c), e, Some("2024-01-01"), Absent) :
        c \in ExcerptContents, e \in ExplicitExcerpts}
    \cup {Article(Absent, Absent, Some(<<"T">>), Absent, Absent, d, p) :
             d \in DateFields, p \in DateFields}

Return ==
    /\ pc' = "returned"
    /\ UNCHANGED <<source, imagesSrc, now, variant, articles, dist, exitCode, log,
                   events, fn, arg>>

CallGetArticleSlug ==
    /\ pc = "call" /\ fn = "getArticleSlug"
    /\ ret' = getArticleSlug(arg)
    /\ Return

CallExtractExcerpt ==
    /\ pc = "call" /\ fn = "extractExcerpt"
    /\ ret' = extractExcerpt(arg.content, ExcerptLength)
    /\ Return

CallFormatContent ==
    /\ pc = "call" /\ fn = "formatContent"
    /\ ret' = formatContent(arg.content)
    /\ Return

\* The three renderers on the collection holding just this record.
CallRender ==
    /\ pc = "call" /\ fn = "render"
    /\ ret' = [ home |-> getHomePageHTML(<<arg>>, now, variant),
                page |-> getArticlePageHTML(arg, now),
                feed |-> getRSSFeed(<<arg>>, now) ]
    /\ Return

InitFn ==
    /\ pc = "call"
    /\ \/ fn = "getArticleSlug" /\ arg \in SlugArgs /\ variant = "featured"
       \/ fn = "extractExcerpt" /\ arg \in ExtractArgs /\ variant = "featured"
       \/ fn = "formatContent" /\ arg \in FormatArgs /\ variant = "featured"
       \/ fn = "render" /\ arg \in RenderArgs /\ variant \in Variants
    /\ ret = <<>>
    /\ source = [kind |-> "absent", items |-> <<>>]
    /\ imagesSrc = [exists |-> FALSE, files |-> <<>>]
    /\ now = 20000
    /\ articles = <<>>
    /\ dist = NoDist
    /\ exitCode = 0
    /\ log = <<>>
    /\ events = <<>>

NextFn ==
    \/ CallGetArticleSlug
    \/ CallExtractExcerpt
    \/ CallFormatContent
    \/ CallRender

SpecFn == InitFn /\ [][NextFn]_vars

---------------------------------------------------------------------------
(* Vocabulary of the properties *)

\* [a-z0-9]+(-[a-z0-9]+)*
IsSlugToken(s) ==
    /\ s # <<>>
    /\ \A i \in 1..Len(s) : IsSlugChar(s[i]) \/ s[i] = "-"
    /\ s[1] # "-" /\ s[Len(s)] # "-"
    /\ \A i \in 1..(Len(s) - 1) : ~(s[i] = "-" /\ s[i + 1] = "-")

\* build() is past loadArticles and has not failed.
Loaded ==
    pc \in {"copyAssets", "generateHomePage", "generateArticlePages",
            "generateRSSFeed", "success", "done"}

\* build() is past generateArticlePages and has not failed.
PagesDone == pc \in {"generateRSSFeed", "success", "done"}

\* build() is past generateRSSFeed and has not failed.
FeedDone == pc \in {"success", "done"}

\* The detail pages in the output directory, but for what an earlier build
\* left there.
PagePaths == DOMAIN dist.articles \ {StaleSlug}

\* The article carries a timestamp field / one that parses.
HasTimestamp(a) == TruthyDate(a.date) \/ TruthyDate(a.published_at)
HasValidTimestamp(a) == HasTimestamp(a) /\ SortKey(a).valid

\* b is a rearrangement of a.
IsPermutation(a, b) ==
    /\ Len(a) = Len(b)
    /\ \A x \in Range(a) \cup Range(b) :
          Cardinality({i \in 1..Len(a) : a[i] = x})
              = Cardinality({i \in 1..Len(b) : b[i] = x})

---------------------------------------------------------------------------
(* C1: for every article record getArticleSlug returns a non-empty token    *)
(* matching [a-z0-9]+(-[a-z0-9]+)*, and returns the placeholder "untitled"  *)
(* only when slug, id and title are all absent.                            *)
C1_SlugWellFormed ==
    (fn = "getArticleSlug" /\ pc = "returned") =>
        /\ IsSlugToken(ret)
        /\ ret = Untitled =>
              arg.slug = Absent /\ arg.id = Absent /\ arg.title = Absent

(* C2: once generateArticlePages has completed for a collection of n        *)
(* pairwise different articles the output directory holds exactly n detail  *)
(* pages, every article under a path of its own holding its own page.       *)
C2_OnePagePerArticle ==
    (PagesDone /\ \A i, j \in 1..Len(articles) : i # j => articles[i] # articles[j]) =>
        /\ Cardinality(PagePaths) = Len(articles)
        /\ \A i \in 1..Len(articles) :
              /\ getArticleSlug(articles[i]) \in DOMAIN dist.articles
              /\ dist.articles[getArticleSlug(articles[i])]
                    = getArticlePageHTML(articles[i], now)

(* C3: when articles.json holds malformed JSON, or JSON that is no list,    *)
(* the build is fatal: it never gets past loadArticles, it holds no         *)
(* substitute data, and it ends logging the error with exit status 1.       *)
C3_ParseFailureIsFatal ==
    source.kind \in {"malformed", "notlist"} =>
        /\ ~Loaded
        /\ articles = <<>>
        /\ pc = "failed" => exitCode = 1

(* C4, as claimed: when articles.json is absent, unreadable or empty (a      *)
(* zero-byte file, or an empty list) a finished build shows exactly one     *)
(* placeholder article: one home page entry, the one detail page            *)
(* articles/sample-article.html, one feed item.                             *)
C4_PlaceholderOnEmptySource ==
    ( /\ pc = "done"
      /\ \/ source.kind \in {"absent", "unreadable", "empty"}
         \/ source.kind = "list" /\ source.items = <<>> ) =>
        /\ exitCode = 0
        /\ Len(HomeEntries(dist.index[1])) = 1
        /\ PagePaths = {SampleId}
        /\ Len(dist.feed[1].items) = 1

(* C4, amended: when articles.json is absent, unreadable or a zero-byte     *)
(* file, loadArticles hands the build exactly one article, the built-in     *)
(* placeholder, and a build that finishes shows exactly that one: one home  *)
(* page entry linking to articles/sample-article.html, that one detail      *)
(* page, one feed item.  A file holding the empty list [] is no such case:  *)
(* it is loaded as zero articles, and a build that finishes shows none: no  *)
(* home page entry, no detail page written, no feed item.                   *)
C4_PlaceholderOnMissingFile ==
    /\ source.kind \in {"absent", "unreadable", "empty"} =>
          /\ Loaded => Len(articles) = 1 /\ articles[1].id = Some(SampleId)
          /\ pc = "done" =>
                /\ exitCode = 0
                /\ Len(HomeEntries(dist.index[1])) = 1
                /\ HomeEntries(dist.index[1])[1].href = ArticleHref(SampleId)
                /\ PagePaths = {SampleId}
                /\ Len(dist.feed[1].items) = 1
                /\ dist.feed[1].items[1].link = ArticleHref(SampleId)
    /\ (source.kind = "list" /\ source.items = <<>>) =>
          /\ articles = <<>>
          /\ pc = "done" =>
                /\ exitCode = 0
                /\ HomeEntries(dist.index[1]) = <<>>
                /\ PagePaths = {}
                /\ dist.feed[1].items = <<>>

C4_Witness ==
    /\ source.kind = "empty"
    /\ pc = "done"
    /\ PagePaths = {SampleId}
    /\ Len(HomeEntries(dist.index[1])) = 1

(* C5: the collection loadArticles returns is a permutation of the input    *)
(* list ordered newest first: of two articles whose timestamps parse the    *)
(* earlier-placed is not the older, and no article without a timestamp is   *)
(* placed before one whose timestamp parses.                                *)
C5_NewestFirst ==
    (Loaded /\ source.kind = "list") =>
        /\ IsPermutation(articles, source.items)
        /\ \A i, j \in 1..Len(articles) :
              i < j =>
                 /\ (HasValidTimestamp(articles[i]) /\ HasValidTimestamp(articles[j]))
                       => SortKey(articles[i]).time >= SortKey(articles[j]).time
                 /\ ~(~HasTimestamp(articles[i]) /\ HasValidTimestamp(articles[j]))

(* C6: the feed of a build over n articles holds exactly min(n, 20) items,  *)
(* they are the first min(n, 20) entries of the home page in its order, and *)
(* they are the most recent: no article left out of the feed has a          *)
(* timestamp newer than that of an article in it.                           *)
C6_FeedMostRecent ==
    (FeedDone /\ source.kind = "list") =>
        LET items == dist.feed[1].items
            home == HomeEntries(dist.index[1])
        IN  /\ Len(items) = Min(Len(articles), FeedLimit)
            /\ \A k \in 1..Len(items) : items[k].link = home[k].href
            /\ \A i \in 1..Len(items) : \A j \in (Len(items) + 1)..Len(articles) :
                  (HasValidTimestamp(articles[i]) /\ HasValidTimestamp(articles[j]))
                     => SortKey(articles[i]).time >= SortKey(articles[j]).time

(* C7: in every generated feed each item's guid equals its link, and (the   *)
(* articles being pairwise different) no two items carry the same guid.     *)
C7_GuidUnique ==
    (FeedDone /\ \A i, j \in 1..Len(articles) : i # j => articles[i] # articles[j]) =>
        LET items == dist.feed[1].items
        IN  /\ \A k \in 1..Len(items) : items[k].guid = items[k].link
            /\ \A i, j \in 1..Len(items) : i # j => items[i].guid # items[j].guid

---------------------------------------------------------------------------
(* What the renderers show of one article *)

\* The excerpts rendered for the record: in its home page entry, in the two
\* meta tags of its detail page, in the description of its feed item.
RenderedExcerpts ==
    { HomeEntries(ret.home)[1].excerpt, ret.page.description,
      ret.page.ogDescription, ret.feed.items[1].description }

\* The dates rendered for the record.
RenderedDates ==
    { HomeEntries(ret.home)[1].date, ret.page.date, ret.feed.items[1].pubDate }

Rendered == fn = "render" /\ pc = "returned"

(* C8, as claimed: the excerpt rendered for an article, explicit or         *)
(* derived, is never longer than 150 + 3 characters, in the home page, the  *)
(* detail page meta tags and the feed description alike.                    *)
C8_ExcerptAtMost153 ==
    Rendered => \A e \in RenderedExcerpts : Len(e) <= ExcerptLength + 3

(* C8, amended: an explicit non-empty excerpt is rendered as it is, whatever *)
(* its length; an excerpt derived from the content (no excerpt field, or an *)
(* empty one) is never longer than 150 + 3 characters; the home page, the   *)
(* detail page meta tags and the feed description show the same excerpt.    *)
C8_DerivedExcerptAtMost153 ==
    Rendered =>
        /\ Cardinality(RenderedExcerpts) = 1
        /\ Truthy(arg.excerpt) => RenderedExcerpts = {arg.excerpt[1]}
        /\ ~Truthy(arg.excerpt) =>
              \A e \in RenderedExcerpts : Len(e) <= ExcerptLength + 3

C8_Witness ==
    /\ Rendered
    /\ ~Truthy(arg.excerpt)
    /\ Truthy(arg.content)
    /\ Len(StripTags(arg.content[1])) > ExcerptLength + 3
    /\ \A e \in RenderedExcerpts : Len(e) = ExcerptLength + 3

(* C9: no rendered page or feed item carries an invalid date: the date is   *)
(* that of the 'date' field if it parses, else that of 'published_at' if it *)
(* parses, else the current time.                                           *)
C9_NoInvalidDate ==
    Rendered =>
        /\ "Invalid Date" \notin RenderedDates
        /\ (TruthyDate(arg.published_at) /\ NewDateFromString(arg.published_at[1]).valid
            /\ ~(TruthyDate(arg.date) /\ NewDateFromString(arg.date[1]).valid))
              => ret.page.date = toLocaleDateString(NewDateFromString(arg.published_at[1]))

(* C10, as claimed: content holding any angle bracket, "<" or ">", is       *)
(* returned by formatContent unchanged.                                     *)
C10_AnyBracketPassesThrough ==
    (fn = "formatContent" /\ pc = "returned" /\ Truthy(arg.content)
     /\ {"<", ">"} \cap Range(arg.content[1]) # {}) =>
        ret = arg.content[1]

\* The places where split('\n\n') cuts s: P holds the first position of
\* every separator matched.  Every "\n\n" of s is matched or overlaps the
\* match just before it, and matches do not overlap.
IsSplitOf(P, s) ==
    /\ \A k \in P : s[k] = "\n" /\ s[k + 1] = "\n" /\ (k + 1) \notin P
    /\ \A k \in 1..(Len(s) - 1) :
          (s[k] = "\n" /\ s[k + 1] = "\n") => (k \in P \/ (k - 1) \in P)

\* The text from position i up to the next cut of P, or to the end of s.
SegmentFrom(P, s, i) ==
    LET later == {k \in P : k >= i}
    IN  SubSeq(s, i, IF later = {} THEN Len(s) ELSE Least(later) - 1)

\* s is the paragraphs of c: for each start of a segment, in order, the
\* trimmed segment between <p> and </p>, and nothing else.
IsParagraphsOf(s, c) ==
    \E P \in SUBSET (1..(Len(c) - 1)) :
        /\ IsSplitOf(P, c)
        /\ LET starts == {1} \cup {k + 2 : k \in P}
               before(i) == {j \in starts : j < i}
               width(i) == Len(Trim(SegmentFrom(P, c, i))) + Len(POpen) + Len(PClose)
               offset[n \in 0..Cardinality(starts)] ==
                   IF n = 0 THEN 0
                   ELSE offset[n - 1]
                        + width(CHOOSE i \in starts : Cardinality(before(i)) = n - 1)
           IN  /\ Len(s) = offset[Cardinality(starts)]
               /\ \A i \in starts :
                     SubSeq(s, offset[Cardinality(before(i))] + 1,
                               offset[Cardinality(before(i)) + 1])
                        = POpen \o Trim(SegmentFrom(P, c, i)) \o PClose

(* C10, amended: formatContent returns content holding a "<" unchanged;     *)
(* content holding none (a ">" does not count) comes back as its segments   *)
(* between double newlines, each trimmed and wrapped in <p>...</p>, joined  *)
(* with nothing between them; empty or absent content gives the empty       *)
(* string.                                                                  *)
C10_OpeningBracketPassesThrough ==
    (fn = "formatContent" /\ pc = "returned") =>
        IF ~Truthy(arg.content) THEN ret = <<>>
        ELSE IF "<" \in Range(arg.content[1]) THEN ret = arg.content[1]
        ELSE IsParagraphsOf(ret, arg.content[1])

C10_Witness ==
    /\ fn = "formatContent" /\ pc = "returned"
    /\ Truthy(arg.content)
    /\ ">" \in Range(arg.content[1])
    /\ IsParagraphsOf(ret, arg.content[1])
    /\ Len(ret) >= 2 * (Len(POpen) + Len(PClose))

---------------------------------------------------------------------------
\* The place of an artifact in the order build() produces them.
ArtifactRank(what) ==
    CASE what = "articles.json" -> 0
      [] what = "styles.css"    -> 1
      [] what = "image"         -> 2
      [] what = "index.html"    -> 3
      [] what = "page"          -> 4
      [] what = "feed.xml"      -> 5

\* How many times the run has done op on what.
CountOf(op, what) ==
    Cardinality({i \in 1..Len(events) : events[i] = Event(op, what)})

(* C11, as claimed: the phases do not overlap: nothing is written before    *)
(* the article data is loaded, and once an artifact has been written        *)
(* nothing is rendered any more (every page and the feed are rendered       *)
(* before the first write).                                                 *)
C11_RenderAllThenWriteAll ==
    \A i \in 1..Len(events) :
        events[i].op = "write" =>
            /\ \E j \in 1..(i - 1) : events[j].op = "load"
            /\ \A j \in (i + 1)..Len(events) : events[j].op # "render"

(* C11, amended: the article data is loaded first and once, before anything *)
(* is rendered or written; after that the run goes artifact by artifact in  *)
(* the order styles.css, images, index.html, the detail pages one by one,   *)
(* feed.xml, and each artifact is rendered immediately before it is         *)
(* written, so that the earlier artifacts are already written when the      *)
(* later ones are rendered; a run that ends well has written styles.css,    *)
(* index.html and feed.xml once and one page per article.                   *)
C11_RenderThenWriteEach ==
    /\ events # <<>> => events[1] = Event("load", "articles.json")
    /\ CountOf("load", "articles.json") <= 1
    /\ \A i \in 1..Len(events) :
          events[i].op = "write" =>
              i > 1 /\ events[i - 1] = Event("render", events[i].what)
    /\ \A i, j \in 1..Len(events) :
          i < j => ArtifactRank(events[i].what) <= ArtifactRank(events[j].what)
    /\ pc = "done" =>
          /\ CountOf("write", "styles.css") = 1
          /\ CountOf("write", "index.html") = 1
          /\ CountOf("write", "feed.xml") = 1
          /\ CountOf("write", "page") = Len(articles)

C11_Witness ==
    /\ pc = "done"
    /\ Len(articles) >= 2
    /\ \E i, j \in 1..Len(events) :
          /\ i < j
          /\ events[i] = Event("write", "index.html")
          /\ events[j] = Event("render", "page")

---------------------------------------------------------------------------
SuccessLogged == \E i \in 1..Len(log) : log[i] = "log: Site built successfully!"
ErrorLogged == \E i \in 1..Len(log) : log[i] = "error: Build failed"

(* C12: a failure of createDist or of a writeFile ends the build there: the *)
(* error is logged last, the exit status is 1, the success message is never *)
(* logged, nothing is rendered, written or copied after the write that      *)
(* failed, and no step is taken from the failed state; a run in which       *)
(* nothing fails logs the success message with exit status 0, every         *)
(* artifact written.                                                        *)
C12_AbortOnFirstFailure ==
    /\ [](/\ exitCode = 1 <=> pc = "failed"
          /\ ErrorLogged <=> pc = "failed"
          /\ SuccessLogged <=> pc = "done"
          /\ pc = "failed" =>
                /\ log[Len(log)] = "error: Build failed"
                /\ events = <<>> \/ events[Len(events)].op \in {"load", "render"}
                /\ CountOf("write", "feed.xml") = 0
          /\ pc = "done" =>
                /\ exitCode = 0
                /\ log[Len(log)] = "log: Site built successfully!"
                /\ dist.exists /\ dist.css /\ dist.index # <<>> /\ dist.feed # <<>>
                /\ events[Len(events)] = Event("write", "feed.xml"))
    /\ [][pc \notin {"failed", "done"}]_vars

C12_Witness ==
    /\ pc = "failed"
    /\ exitCode = 1
    /\ CountOf("write", "index.html") = 1
    /\ CountOf("write", "page") = 1
    /\ Len(articles) >= 2

---------------------------------------------------------------------------
(* C13: the home page of a build lists every article of the collection      *)
(* exactly once, in collection order: as many entries as articles, the k-th *)
(* entry carrying the k-th article's title and linking to                   *)
(* articles/<slug>.html for the slug under which generateArticlePages has   *)
(* written that article's page; with a featured section the first article   *)
(* is the featured entry and the cards are the others.                      *)
C13_HomeListsEveryArticleOnce ==
    PagesDone =>
        LET html == dist.index[1]
            home == HomeEntries(html)
        IN  /\ Len(home) = Len(articles)
            /\ \A k \in 1..Len(articles) :
                  /\ home[k].title = articles[k].title
                  /\ home[k].href.dir = "articles" /\ home[k].href.ext = ".html"
                  /\ home[k].href.slug = getArticleSlug(articles[k])
                  /\ home[k].href.slug \in DOMAIN dist.articles
            /\ variant = "featured" =>
                  /\ Len(html.featured) = Min(Len(articles), 1)
                  /\ Len(html.cards) = Len(articles) - Len(html.featured)
            /\ variant = "cards" => html.featured = <<>>

C13_Witness ==
    /\ PagesDone
    /\ variant = "featured"
    /\ Len(articles) = 3
    /\ Len(dist.index[1].cards) = 2
    /\ \A i, j \in 1..3 : i # j => articles[i].title # articles[j].title

---------------------------------------------------------------------------
\* The data source is a list whose every article has a timestamp that parses.
AllTimestamped ==
    /\ source.kind = "list"
    /\ \A i \in 1..Len(source.items) : HasValidTimestamp(source.items[i])

\* The detail pages a run at time t writes for the collection as.
PagesAt(as, t) == WritePages(<<>>, as, Len(as), t)

(* C14, as claimed: when every article has a parseable timestamp, a run at  *)
(* any other time over the same data produces the same index.html, the same *)
(* detail pages and the same feed.xml.                                      *)
C14_OutputsIndependentOfClock ==
    (pc = "done" /\ AllTimestamped /\ dist.articles = PagesAt(articles, now)) =>
        \A t \in Clock : \A as \in SortOutcomes(source.items) :
            /\ getHomePageHTML(as, t, variant) = dist.index[1]
            /\ PagesAt(as, t) = dist.articles
            /\ getRSSFeed(as, t) = dist.feed[1]

(* C14, amended: when every article has a parseable timestamp, a run at any *)
(* other time over the same data loads the same collection and produces the *)
(* same home page entries, the same detail pages but for the copyright year *)
(* of the footer, and the same feed items; the home page footer's year, the *)
(* detail pages' footer year and the feed's lastBuildDate are those of the  *)
(* run's own clock.                                                         *)
C14_ArticlePartsIndependentOfClock ==
    (pc = "done" /\ AllTimestamped /\ dist.articles = PagesAt(articles, now)) =>
        /\ \A t \in Clock : \A as \in SortOutcomes(source.items) :
              /\ as = articles
              /\ HomeEntries(getHomePageHTML(as, t, variant)) = HomeEntries(dist.index[1])
              /\ getRSSFeed(as, t).items = dist.feed[1].items
              /\ DOMAIN PagesAt(as, t) = DOMAIN dist.articles
              /\ \A s \in DOMAIN dist.articles :
                    [PagesAt(as, t)[s] EXCEPT !.year = 0] = [dist.articles[s] EXCEPT !.year = 0]
        /\ dist.index[1].year = getFullYear(NewDateFromNumber(now))
        /\ \A s \in DOMAIN dist.articles :
              dist.articles[s].year = getFullYear(NewDateFromNumber(now))
        /\ dist.feed[1].lastBuildDate = toUTCString(NewDateFromNumber(now))

C14_Witness ==
    /\ pc = "done" /\ AllTimestamped
    /\ Len(articles) = 2
    /\ dist.articles = PagesAt(articles, now)
    /\ \E t \in Clock :
          /\ getRSSFeed(articles, t).items = dist.feed[1].items
          /\ getRSSFeed(articles, t).lastBuildDate # dist.feed[1].lastBuildDate
          /\ getHomePageHTML(articles, t, variant).year # dist.index[1].year

---------------------------------------------------------------------------
\* The record {slug: s}.
SlugOnly(s) == Article(Some(s), Absent, Absent, Absent, Absent, Absent, Absent)

(* C15: slug derivation is idempotent: for every record, deriving the slug  *)
(* again from the record {slug: s}, s being the slug derived first, gives s *)
(* again.                                                                   *)
C15_SlugIdempotent ==
    (fn = "getArticleSlug" /\ pc = "returned") =>
        getArticleSlug(SlugOnly(ret)) = ret

---------------------------------------------------------------------------
\* s ends with the three dots.
EndsWithEllipsis(s) ==
    Len(s) >= Len(Ellipsis) /\ SubSeq(s, Len(s) - Len(Ellipsis) + 1, Len(s)) = Ellipsis

\* The content passed to the helper, tags stripped and trimmed.
Stripped == Trim(StripTags(arg.content[1]))

ExcerptReturned == fn = "extractExcerpt" /\ pc = "returned" /\ Truthy(arg.content)

(* C16, as claimed: the derived excerpt ends with "..." if and only if the  *)
(* stripped and trimmed content is longer than 150 characters; it is then   *)
(* the first 150 stripped characters followed by "...", and otherwise the   *)
(* whole stripped text.                                                     *)
C16_EllipsisIffTruncated ==
    ExcerptReturned =>
        /\ EndsWithEllipsis(ret) <=> Len(Stripped) > ExcerptLength
        /\ ret = IF Len(Stripped) > ExcerptLength
                 THEN SubSeq(Stripped, 1, ExcerptLength) \o Ellipsis
                 ELSE Stripped

(* C16, amended: when the stripped and trimmed content is longer than 150   *)
(* characters the derived excerpt is its first 150 characters followed by   *)
(* "...", 153 characters in all; otherwise it is the whole stripped text,   *)
(* unchanged, and so ends with "..." exactly when that text itself does.    *)
C16_EllipsisAppendedIffTruncated ==
    ExcerptReturned =>
        IF Len(Stripped) > ExcerptLength
        THEN /\ Len(ret) = ExcerptLength + Len(Ellipsis)
             /\ SubSeq(ret, 1, ExcerptLength) = SubSeq(Stripped, 1, ExcerptLength)
             /\ EndsWithEllipsis(ret)
        ELSE /\ ret = Stripped
             /\ EndsWithEllipsis(ret) <=> EndsWithEllipsis(Stripped)

C16_Witness ==
    /\ ExcerptReturned
    /\ Len(Stripped) <= ExcerptLength
    /\ Len(Stripped) > Len(Ellipsis)
    /\ EndsWithEllipsis(ret)

---------------------------------------------------------------------------
\* The files of the images source directory.
SourceImages == {imagesSrc.files[i] : i \in 1..Len(imagesSrc.files)}

(* C17: after a build that reports success the output images directory      *)
(* holds a copy of every file of the image source directory; a copy that    *)
(* fails does not go unnoticed behind a successful build, the warning being *)
(* logged only when the source directory is absent.                         *)
C17_ImagesComplete ==
    pc = "done" =>
        /\ imagesSrc.exists => SourceImages \subseteq dist.images
        /\ (\E i \in 1..Len(log) : log[i] = "warn: No images directory found")
              => ~imagesSrc.exists

====
